---- MODULE Spec2Model ----
(***************************************************************************)
(* Model of synapse/push/bulk_push_rule_evaluator.py: the per-room push    *)
(* rule cache (RulesForRoom), the registry of these caches                 *)
(* (BulkPushRuleEvaluator._get_rules_for_room) and the evaluation of one   *)
(* event (BulkPushRuleEvaluator.action_for_event_by_user).                 *)
(*                                                                         *)
(* Every `yield` of the inlineCallbacks generators is a suspension point:  *)
(* one action of the model runs one generator from the resumption of a     *)
(* yield to the next yield, with everything the code does synchronously    *)
(* in between.                                                             *)
(***************************************************************************)
EXTENDS Integers, Sequences, FiniteSets, TLC

VARIABLES
    cache,       \* _get_rules_for_room.cache: room_id -> entry id (0: no entry)
    entries,     \* heap of RulesForRoom objects: entry id -> its fields
    dicts,       \* heap of the rules_by_user dict objects: dict id -> user -> rules
    nAlloc,      \* number of entries/dicts/object() sentinels allocated so far
    registered,  \* the invalidate_all_cb callbacks handed to the store, each
                 \* with the cached store value it was registered on
    rules_table, \* the push rules of the store now: user -> rules
    frame,       \* per evaluation: position and local variables of the generators
    nCalls,      \* number of evaluations started
    ghost,       \* per evaluation: history of its get_rules call
    last         \* history: the get_rules call that returned most recently

vars == <<cache, entries, dicts, nAlloc, registered, rules_table, frame, nCalls,
          ghost, last>>

----------------------------------------------------------------------------
(* Bounds of the model *)

\* largest number of allocations (entry creations plus invalidations)
MaxAlloc == 2

\* largest number of evaluations started in one behaviour of Spec
MaxCalls == 2

\* largest number of evaluations started in one behaviour of SpecWide
MaxCallsWide == 3

\* largest number of allocations and of evaluations started in one behaviour
\* of SpecEvict
MaxAllocEvict == 3
MaxCallsEvict == 2

\* largest number of allocations and of evaluations started in one behaviour
\* of SpecStore
MaxAllocStore == 2
MaxCallsStore == 2

\* largest number of rules of the user whose rules SpecEval draws freely
MaxRules == 3

Procs == {"p1", "p2"}

----------------------------------------------------------------------------
(* Python values *)

EmptyMap == <<>>

Keys(d) == DOMAIN d

\* dict.update(n) applied to d
DictUpdate(d, n) ==
    [k \in (DOMAIN d) \cup (DOMAIN n) |-> IF k \in DOMAIN n THEN n[k] ELSE d[k]]

\* {k: d[k] for k in ks}
Restrict(d, ks) == [k \in ks |-> d[k]]

\* synapse.api.constants
EventTypesMember == "m.room.member"
MembershipJOIN == "join"

----------------------------------------------------------------------------
(* The world outside: homeserver, datastore, visibility, rule conditions *)

Users == {"A", "B", "C", "D", "E", "N", "R", "S", "U"}

\* hs.is_mine_id: R is homed on another server
is_mine_id(u) == u # "R"

\* store.get_if_app_services_interested_in_user: S is an application service user
get_if_app_services_interested_in_user(u) == u = "S"

\* the room_memberships table: event_id -> row. The membership event eU is
\* not in the table (it is not persisted yet).
room_memberships ==
    ( "eA"  :> [user_id |-> "A", membership |-> "join"]   ) @@
    ( "eB"  :> [user_id |-> "B", membership |-> "join"]   ) @@
    ( "eBl" :> [user_id |-> "B", membership |-> "leave"]  ) @@
    ( "eC"  :> [user_id |-> "C", membership |-> "join"]   ) @@
    ( "eD"  :> [user_id |-> "D", membership |-> "invite"] ) @@
    ( "eE"  :> [user_id |-> "E", membership |-> "join"]   ) @@
    ( "eN"  :> [user_id |-> "N", membership |-> "join"]   ) @@
    ( "eR"  :> [user_id |-> "R", membership |-> "join"]   ) @@
    ( "eS"  :> [user_id |-> "S", membership |-> "join"]   ) @@
    ( "fA"  :> [user_id |-> "A", membership |-> "join"]   )

\* store._simple_select_many_batch(table="room_memberships", column="event_id",
\* iterable=event_ids): the rows of the table with one of the event ids
_simple_select_many_batch(event_ids) ==
    Restrict(room_memberships, event_ids \cap DOMAIN room_memberships)

\* the pushers table
UsersWithPushers == {"A", "B", "D", "E", "N"}

\* store.user_has_pusher
user_has_pusher(u) == u \in UsersWithPushers

\* store.get_if_users_have_pushers(user_ids): user -> bool
get_if_users_have_pushers(user_ids) == [u \in user_ids |-> user_has_pusher(u)]

\* store.get_users_with_read_receipts_in_room(room_id)
get_users_with_read_receipts_in_room(room_id) ==
    IF room_id = "!r1" THEN {"B", "C", "R"} ELSE {}

\* rule conditions and rules
CondMessage == [kind |-> "event_match_message", _id |-> "c_msg"]
CondMention == [kind |-> "contains_display_name", _id |-> ""]
CondInvite  == [kind |-> "invite_for_me", _id |-> ""]
CondMember  == [kind |-> "event_match_member", _id |-> "c_member"]

RuleMention ==
    [enabled |-> "absent", conditions |-> <<CondMention>>,
     actions |-> <<"notify", "highlight">>]
RuleMessage ==
    [enabled |-> "true", conditions |-> <<CondMessage>>, actions |-> <<"notify">>]
RuleInvite ==
    [enabled |-> "absent", conditions |-> <<CondInvite>>,
     actions |-> <<"notify", "sound">>]
RuleDisabled ==
    [enabled |-> "false", conditions |-> <<>>, actions |-> <<"notify", "sound">>]
RuleQuiet ==
    [enabled |-> "absent", conditions |-> <<CondMessage>>,
     actions |-> <<"dont_notify">>]

RuleMixed ==
    [enabled |-> "true", conditions |-> <<CondMessage, CondMention>>,
     actions |-> <<"dont_notify", "notify">>]
RuleMember ==
    [enabled |-> "absent", conditions |-> <<CondMember>>,
     actions |-> <<"highlight">>]

\* the push_rules table as it is at the start: user -> rules; a user in
\* NoRulesUsers has None
NoRulesUsers == {"N"}

push_rules ==
    [u \in Users |->
        CASE u = "A" -> <<RuleMessage>>
          [] u = "B" -> <<RuleDisabled, RuleMention, RuleMessage>>
          [] u = "C" -> <<RuleMessage>>
          [] u = "D" -> <<RuleInvite, RuleQuiet, RuleMessage>>
          [] u = "E" -> <<>>
          [] OTHER   -> <<>>]

\* store.bulk_get_push_rules(user_ids): user -> [none, rules]
bulk_get_push_rules(user_ids) ==
    [u \in user_ids |-> [none |-> u \in NoRulesUsers, rules |-> rules_table[u]]]

\* store.get_push_rules_for_user(user_id)
get_push_rules_for_user(u) == rules_table[u]

\* room ids
Rooms == {"!r1", "!r2"}

\* events handed to action_for_event_by_user
Msg1 == [event_id |-> "m1", room_id |-> "!r1", type |-> "m.room.message",
         sender |-> "A", state_key |-> "", membership |-> "",
         displayname |-> "", mentions |-> {"bob"}]
Msg2 == [event_id |-> "m2", room_id |-> "!r1", type |-> "m.room.message",
         sender |-> "A", state_key |-> "", membership |-> "",
         displayname |-> "", mentions |-> {}]
MsgB == [event_id |-> "m3", room_id |-> "!r1", type |-> "m.room.message",
         sender |-> "B", state_key |-> "", membership |-> "",
         displayname |-> "", mentions |-> {"bob"}]
MsgR == [event_id |-> "m4", room_id |-> "!r1", type |-> "m.room.message",
         sender |-> "R", state_key |-> "", membership |-> "",
         displayname |-> "", mentions |-> {"bob"}]
MsgZ == [event_id |-> "m5", room_id |-> "!r2", type |-> "m.room.message",
         sender |-> "R", state_key |-> "", membership |-> "",
         displayname |-> "", mentions |-> {}]
Invite == [event_id |-> "eD", room_id |-> "!r1", type |-> "m.room.member",
           sender |-> "A", state_key |-> "D", membership |-> "invite",
           displayname |-> "dave", mentions |-> {}]

MemberKey(u) == <<EventTypesMember, u>>

\* resolution contexts: state_group and current_state_ids
Ctx1 == [state_group |-> 1, current_state_ids |->
          (MemberKey("A") :> "eA") @@ (MemberKey("B") :> "eB") @@
          (MemberKey("R") :> "eR") @@ (MemberKey("U") :> "eU") @@
          (<<"m.room.name", "">> :> "eName")]
Ctx2 == [state_group |-> 2, current_state_ids |->
          (MemberKey("A") :> "eA") @@ (MemberKey("B") :> "eBl") @@
          (MemberKey("C") :> "eC") @@ (MemberKey("S") :> "eS") @@
          (MemberKey("N") :> "eN") @@ (MemberKey("E") :> "eE")]
Ctx3 == [state_group |-> 3, current_state_ids |->
          (MemberKey("A") :> "eA") @@ (MemberKey("B") :> "eBl") @@
          (MemberKey("D") :> "eD")]
Ctx4 == [state_group |-> 4, current_state_ids |->
          (MemberKey("A") :> "eA") @@ (MemberKey("R") :> "eR")]

\* a state of room !r2
Ctx5 == [state_group |-> 5, current_state_ids |-> (MemberKey("A") :> "fA")]

Contexts == {Ctx1, Ctx2, Ctx3, Ctx4, Ctx5}

\* the state groups of the contexts
StateGroups == {c.state_group : c \in Contexts}

\* the (event, context) pairs action_for_event_by_user is called with
Calls ==
    { [event |-> Msg1, context |-> Ctx1],
      [event |-> Msg2, context |-> Ctx2],
      [event |-> Invite, context |-> Ctx3],
      [event |-> Msg2, context |-> Ctx4] }

NoCall == [event |-> Msg1, context |-> Ctx4]

----------------------------------------------------------------------------
(* RulesForRoom *)

\* Python truth value of a state group (None is modelled by 0)
Truthy(state_group) == state_group # 0

\* object(): the k-th allocated sentinel; equal to no state group and to no
\* other sentinel
Sentinel(k) == -k

\* RulesForRoom.__init__: the fields of a new entry whose rules_by_user is the
\* new (empty) dict k and whose state_group is the new sentinel k
RulesForRoomInit(room_id, k) ==
    [room_id |-> room_id, member_map |-> EmptyMap, rules_by_user |-> k,
     state_group |-> Sentinel(k), sequence |-> 0]

\* get_rules, the loop over current_state_ids: the rule sets reused from the
\* cache, for the known member events of joined users with a non-empty rule set
ReusedRules(entry, rules, context) ==
    LET csi   == context.current_state_ids
        known == {k \in DOMAIN csi : csi[k] \in DOMAIN entry.member_map}
        users == {entry.member_map[csi[k]].user_id : k \in
                    {k \in known :
                        /\ entry.member_map[csi[k]].membership = MembershipJOIN
                        /\ entry.member_map[csi[k]].user_id \in DOMAIN rules
                        /\ Len(rules[entry.member_map[csi[k]].user_id]) > 0}}
    IN  [u \in users |-> rules[u]]

\* get_rules, the loop over current_state_ids: missing_member_event_ids, the
\* member events not in member_map of local users no application service is
\* interested in, as user_id -> event_id
MissingMemberEventIds(entry, context) ==
    LET csi  == context.current_state_ids
        keys == {k \in DOMAIN csi :
                    /\ csi[k] \notin DOMAIN entry.member_map
                    /\ k[1] = EventTypesMember
                    /\ is_mine_id(k[2])
                    /\ ~get_if_app_services_interested_in_user(k[2])}
    IN  [u \in {k[2] : k \in keys} |-> csi[MemberKey(u)]]

\* get_rules, the fast path test
FastPath(entry, context) ==
    /\ Truthy(context.state_group)
    /\ entry.state_group = context.state_group

\* _get_rules_for_member_event_ids: members, from the rows of the batch select
MembersOfRows(rows) ==
    [event_id \in DOMAIN rows |->
        [user_id |-> rows[event_id].user_id, membership |-> rows[event_id].membership]]

\* _get_rules_for_member_event_ids: interested_in_user_ids
InterestedInUserIds(members) == {members[event_id].user_id : event_id \in DOMAIN members}

\* _get_rules_for_member_event_ids: user_ids, from if_users_with_pushers
UsersHavingPusher(if_users_with_pushers) ==
    {uid \in DOMAIN if_users_with_pushers : if_users_with_pushers[uid]}

\* _get_rules_for_member_event_ids: user_ids after the loop over
\* users_with_receipts
AddUsersWithReceipts(user_ids, users_with_receipts, interested_in_user_ids) ==
    user_ids \cup (users_with_receipts \cap interested_in_user_ids)

\* DropNone with the filter on None forgotten
DropNoneKeepAll(fetched) == [k \in DOMAIN fetched |-> fetched[k].rules]

\* _get_rules_for_member_event_ids: rules_by_user without the None values
DropNone(fetched) ==
    [k \in {k \in DOMAIN fetched : ~fetched[k].none} |-> fetched[k].rules]

\* MayUpdateCache with the sequence check forgotten
MayUpdateCacheAlways(sequence, entry) == TRUE

\* update_cache: whether the computed values may be written
MayUpdateCache(sequence, entry) == sequence = entry.sequence

\* UpdateCacheEntry with the assignment of state_group forgotten
UpdateCacheEntryNoStateGroup(entry, sequence, members, state_group) ==
    IF sequence = entry.sequence
    THEN [entry EXCEPT !.member_map = DictUpdate(@, members)]
    ELSE entry

\* update_cache: the entry after the call
UpdateCacheEntry(entry, sequence, members, state_group) ==
    IF MayUpdateCache(sequence, entry)
    THEN [entry EXCEPT !.member_map = DictUpdate(@, members),
                       !.state_group = state_group]
    ELSE entry

\* UpdateCacheRules assigning the new dict instead of merging it
UpdateCacheRulesReplace(entry, rules, sequence, rules_by_user) ==
    IF sequence = entry.sequence THEN rules_by_user ELSE rules

\* update_cache: the rules_by_user dict of the entry after the call
UpdateCacheRules(entry, rules, sequence, rules_by_user) ==
    IF MayUpdateCache(sequence, entry)
    THEN DictUpdate(rules, rules_by_user)
    ELSE rules

\* InvalidateAllEntry with the reset of member_map forgotten
InvalidateAllKeepMembers(entry, k) ==
    [entry EXCEPT !.sequence = @ + 1,
                  !.state_group = Sentinel(k),
                  !.rules_by_user = k]

\* invalidate_all: the entry after the call; k is the new dict and sentinel
InvalidateAllEntry(entry, k) ==
    [entry EXCEPT !.sequence = @ + 1,
                  !.state_group = Sentinel(k),
                  !.member_map = EmptyMap,
                  !.rules_by_user = k]

----------------------------------------------------------------------------
(* BulkPushRuleEvaluator: the evaluation of the rules *)

\* the membership of user u in the room state of a context ("" when the
\* state holds no persisted member event of u)
MembershipIn(context, u) ==
    LET csi == context.current_state_ids
    IN  IF MemberKey(u) \in DOMAIN csi /\ csi[MemberKey(u)] \in DOMAIN room_memberships
        THEN room_memberships[csi[MemberKey(u)]].membership
        ELSE ""

\* profile display names ("" for none)
ProfileDisplayName(u) == IF u = "B" THEN "bob" ELSE ""

\* store.get_joined_users_from_context(event, context): user -> display name
get_joined_users_from_context(event, context) ==
    [u \in {u \in Users : MembershipIn(context, u) = MembershipJOIN} |->
        ProfileDisplayName(u)]

\* filter_events_for_clients_context(store, user_tuples, [event], contexts):
\* user -> the events the user may see; a user who is joined or invited sees
\* the event, and so does the user a membership event is about
filter_events_for_clients_context(user_tuples, event, context) ==
    [u \in user_tuples |->
        IF \/ MembershipIn(context, u) \in {"join", "invite"}
           \/ (event.type = EventTypesMember /\ event.state_key = u)
        THEN <<event>> ELSE <<>>]

\* PushRuleEvaluatorForEvent.matches(cond, uid, display_name)
EvaluatorMatches(event, cond, uid, display_name) ==
    CASE cond.kind = "event_match_message" -> event.type = "m.room.message"
      [] cond.kind = "event_match_member" -> event.type = EventTypesMember
      [] cond.kind = "contains_display_name" ->
            display_name # "" /\ display_name \in event.mentions
      [] cond.kind = "invite_for_me" ->
            /\ event.type = EventTypesMember
            /\ event.membership = "invite"
            /\ event.state_key = uid
      [] OTHER -> FALSE

\* one more call of evaluator.matches for a condition
CountCall(n, cond) ==
    IF cond \in DOMAIN n THEN [n EXCEPT ![cond] = @ + 1] ELSE n @@ (cond :> 1)

\* ConditionCheckerFrom with the memo never consulted
RECURSIVE ConditionCheckerNoMemo(_, _, _, _, _, _, _)
ConditionCheckerNoMemo(event, conditions, i, uid, display_name, ccache, n) ==
    IF i > Len(conditions)
    THEN [matches |-> TRUE, cache |-> ccache, evaluated |-> n]
    ELSE LET cond == conditions[i]
             res  == EvaluatorMatches(event, cond, uid, display_name)
         IN  IF ~res
             THEN [matches |-> FALSE, cache |-> ccache,
                   evaluated |-> CountCall(n, cond)]
             ELSE ConditionCheckerNoMemo(event, conditions, i + 1, uid,
                                         display_name, ccache, CountCall(n, cond))

\* _condition_checker from condition i on: [matches, cache, evaluated], where
\* evaluated counts, per condition, the calls of evaluator.matches
RECURSIVE ConditionCheckerFrom(_, _, _, _, _, _, _)
ConditionCheckerFrom(event, conditions, i, uid, display_name, ccache, n) ==
    IF i > Len(conditions)
    THEN [matches |-> TRUE, cache |-> ccache, evaluated |-> n]
    ELSE LET cond == conditions[i]
             id   == cond._id
         IN  IF id # "" /\ id \in DOMAIN ccache /\ ~ccache[id]
             THEN [matches |-> FALSE, cache |-> ccache, evaluated |-> n]
             ELSE IF id # "" /\ id \in DOMAIN ccache /\ ccache[id]
             THEN ConditionCheckerFrom(event, conditions, i + 1, uid, display_name,
                                       ccache, n)
             ELSE LET res == EvaluatorMatches(event, cond, uid, display_name)
                      c2  == IF id # "" THEN DictUpdate(ccache, id :> res) ELSE ccache
                  IN  IF ~res
                      THEN [matches |-> FALSE, cache |-> c2,
                            evaluated |-> CountCall(n, cond)]
                      ELSE ConditionCheckerFrom(event, conditions, i + 1, uid,
                                                display_name, c2, CountCall(n, cond))

\* _condition_checker
ConditionChecker(event, conditions, uid, display_name, ccache, n) ==
    ConditionCheckerFrom(event, conditions, 1, uid, display_name, ccache, n)

\* WithoutDontNotify with the filter forgotten
KeepDontNotify(actions) == actions

\* [x for x in rule['actions'] if x != 'dont_notify']
RECURSIVE WithoutDontNotify(_)
WithoutDontNotify(actions) ==
    IF actions = <<>> THEN <<>>
    ELSE IF Head(actions) = "dont_notify" THEN WithoutDontNotify(Tail(actions))
    ELSE <<Head(actions)>> \o WithoutDontNotify(Tail(actions))

\* 'notify' in actions
Contains(actions, x) == \E i \in 1..Len(actions) : actions[i] = x

\* action_for_event_by_user, the loop over the rules of one user from rule i
\* on: st is [actions_by_user, cache, evaluated]
RECURSIVE RulesLoop(_, _, _, _, _, _)
RulesLoop(event, rules, i, uid, display_name, st) ==
    IF i > Len(rules) THEN st
    ELSE LET rule == rules[i]
         IN  IF rule.enabled = "false"
             THEN RulesLoop(event, rules, i + 1, uid, display_name, st)
             ELSE LET r   == ConditionChecker(event, rule.conditions, uid,
                                              display_name, st.cache, st.evaluated)
                      st2 == [st EXCEPT !.cache = r.cache, !.evaluated = r.evaluated]
                      actions == WithoutDontNotify(rule.actions)
                  IN  IF r.matches
                      THEN IF actions # <<>> /\ Contains(actions, "notify")
                           THEN [st2 EXCEPT !.actions_by_user =
                                                DictUpdate(@, uid :> actions)]
                           ELSE st2
                      ELSE RulesLoop(event, rules, i + 1, uid, display_name, st2)

\* action_for_event_by_user, the display name of one user
DisplayNameOf(event, room_members, uid) ==
    IF uid \in DOMAIN room_members /\ room_members[uid] # ""
    THEN room_members[uid]
    ELSE IF event.type = EventTypesMember /\ event.state_key = uid
         THEN event.displayname
         ELSE ""

\* IsSender answering that no user is the sender
IsSenderNever(filtered, uid) == FALSE

\* action_for_event_by_user: `filtered[0].sender == uid`
IsSender(filtered, uid) == filtered[1].sender = uid

\* action_for_event_by_user, the loop over rules_by_user in the order the
\* dict yields its items
RECURSIVE UsersLoop(_, _, _, _, _, _)
UsersLoop(event, order, rules_by_user, filtered_by_user, room_members, st) ==
    IF order = <<>> THEN st
    ELSE LET uid  == Head(order)
             rest == Tail(order)
             st2  == IF Len(filtered_by_user[uid]) = 0 THEN st
                     ELSE IF IsSender(filtered_by_user[uid], uid) THEN st
                     ELSE RulesLoop(event, rules_by_user[uid], 1, uid,
                                    DisplayNameOf(event, room_members, uid), st)
         IN  UsersLoop(event, rest, rules_by_user, filtered_by_user, room_members, st2)

\* the orders in which a dict with the given keys can yield them
RECURSIVE Orders(_)
Orders(keys) ==
    IF keys = {} THEN {<<>>}
    ELSE UNION {{<<k>> \o o : o \in Orders(keys \ {k})} : k \in keys}

----------------------------------------------------------------------------
(* State *)

IdleFrame ==
    [pc |-> "idle", call |-> NoCall, self |-> 0, sequence |-> 0,
     ret_rules_by_user |-> EmptyMap, missing |-> EmptyMap, members |-> EmptyMap,
     user_ids |-> {}, rbu_ref |-> 0, rbu_val |-> EmptyMap, user_tuples |-> {},
     filtered_by_user |-> EmptyMap, actions_by_user |-> EmptyMap,
     evaluated |-> EmptyMap, fetched |-> EmptyMap]

IdleGhost ==
    [path |-> "none", commit |-> "none", returned |-> FALSE, ret |-> EmptyMap,
     resolved |-> EmptyMap, follows |-> FALSE, twin_ok |-> FALSE,
     twin_ret |-> EmptyMap]

NoLast == [context |-> NoCall.context, self |-> 0, ret |-> EmptyMap, ok |-> FALSE]

\* invalidate_all_cb of the entry of a room, passed as on_invalidate to a
\* lookup of the store ("pushers", "receipts" or "rules"); key is the user
\* whose rule set was looked up, "" for the other lookups
CallbackOn(room, store, key) == [room |-> room, store |-> store, key |-> key]

\* the positions inside get_rules / _get_rules_for_member_event_ids
RefreshPcs == {"rows", "pushers", "receipts", "rules"}

\* the dict a frame's rules_by_user variable is bound to: the cache's own dict
\* (rbu_ref) or a dict of the evaluation's own (rbu_val)
Deref(f, heap) == IF f.rbu_ref # 0 THEN heap[f.rbu_ref] ELSE f.rbu_val

Init ==
    /\ cache = [r \in Rooms |-> 0]
    /\ entries = EmptyMap
    /\ dicts = EmptyMap
    /\ nAlloc = 0
    /\ registered = {}
    /\ rules_table = push_rules
    /\ frame = [p \in Procs |-> IdleFrame]
    /\ nCalls = 0
    /\ ghost = [p \in Procs |-> IdleGhost]
    /\ last = NoLast

----------------------------------------------------------------------------
(* Steps of one evaluation *)

\* action_for_event_by_user from the return of _get_rules_for_event to the
\* yield of filter_events_for_clients_context: user_tuples is computed from
\* the keys rules_by_user has now
ToFilter(f, heap) ==
    [f EXCEPT !.pc = "filter", !.user_tuples = Keys(Deref(f, heap))]

\* whether _get_rules_for_event takes the invite branch for the event
IsLocalInvite(event) ==
    /\ event.type = EventTypesMember
    /\ event.membership = "invite"
    /\ event.state_key # ""
    /\ is_mine_id(event.state_key)

\* _get_rules_for_event from the return of get_rules (rules_by_user bound to
\* the cache's dict ref, or to the own dict val when ref is 0) to the next yield
AfterGetRules(f, ref, val, heap) ==
    LET g == [f EXCEPT !.rbu_ref = ref, !.rbu_val = val]
    IN  IF IsLocalInvite(f.call.event)
        THEN [g EXCEPT !.pc = "inv_pusher"]
        ELSE ToFilter(g, heap)

\* get_rules: what a slow-path call returns, from the rule sets reused at the
\* partition and the rule sets _get_rules_for_member_event_ids returned
SlowPathResult(ret_rules_by_user, missing_rules) ==
    DictUpdate(ret_rules_by_user, missing_rules)

\* action_for_event_by_user is called: _get_rules_for_room finds or creates
\* the entry, get_rules answers from the fast path, or partitions the state
\* and answers from the cache, or calls _get_rules_for_member_event_ids, which
\* captures the sequence and yields on the batch select
StartIn(p, c, maxCalls, maxAlloc) ==
    /\ frame[p].pc \in {"idle", "done", "failed"}
    /\ nCalls < maxCalls
    /\ LET room    == c.event.room_id
           hit     == cache[room] # 0
           e       == IF hit THEN cache[room] ELSE nAlloc + 1
           ents    == IF hit THEN entries
                      ELSE entries @@ (e :> RulesForRoomInit(room, e))
           heap    == IF hit THEN dicts ELSE dicts @@ (e :> EmptyMap)
           entry   == ents[e]
           context == c.context
           f0      == [IdleFrame EXCEPT !.call = c, !.self = e]
           follows == last.ok /\ last.self = e /\ last.context = context
           g0      == [IdleGhost EXCEPT !.follows = follows, !.twin_ok = follows,
                                        !.twin_ret = IF follows THEN last.ret
                                                     ELSE EmptyMap]
           reused  == ReusedRules(entry, heap[entry.rules_by_user], context)
           missing == MissingMemberEventIds(entry, context)
       IN  /\ hit \/ nAlloc < maxAlloc
           /\ cache' = [cache EXCEPT ![room] = e]
           /\ entries' = ents
           /\ dicts' = heap
           /\ nAlloc' = IF hit THEN nAlloc ELSE e
           /\ nCalls' = nCalls + 1
           /\ UNCHANGED <<registered, rules_table>>
           /\ IF FastPath(entry, context)
              THEN /\ frame' = [frame EXCEPT ![p] =
                          AfterGetRules(f0, entry.rules_by_user, EmptyMap, heap)]
                   /\ ghost' = [ghost EXCEPT ![p] =
                          [g0 EXCEPT !.path = "fast", !.returned = TRUE,
                                     !.ret = heap[entry.rules_by_user]]]
                   /\ last' = [context |-> context, self |-> e,
                               ret |-> heap[entry.rules_by_user], ok |-> TRUE]
              ELSE IF missing = EmptyMap
              THEN /\ frame' = [frame EXCEPT ![p] =
                          AfterGetRules([f0 EXCEPT !.ret_rules_by_user = reused],
                                        0, reused, heap)]
                   /\ ghost' = [ghost EXCEPT ![p] =
                          [g0 EXCEPT !.path = "reused", !.returned = TRUE,
                                     !.ret = reused]]
                   /\ last' = [context |-> context, self |-> e, ret |-> reused,
                               ok |-> TRUE]
              ELSE /\ frame' = [frame EXCEPT ![p] =
                          [f0 EXCEPT !.pc = "rows", !.ret_rules_by_user = reused,
                                     !.missing = missing,
                                     !.sequence = entry.sequence]]
                   /\ ghost' = [ghost EXCEPT ![p] = [g0 EXCEPT !.path = "resolved"]]
                   /\ UNCHANGED last

StartUpTo(p, c, maxCalls) == StartIn(p, c, maxCalls, MaxAlloc)

Start(p, c) == StartUpTo(p, c, MaxCalls)

StartWide(p, c) == StartUpTo(p, c, MaxCallsWide)

StartEvict(p, c) == StartIn(p, c, MaxCallsEvict, MaxAllocEvict)

StartStore(p, c) == StartIn(p, c, MaxCallsStore, MaxAllocStore)

\* _simple_select_many_batch returned: members and interested_in_user_ids are
\* computed, get_if_users_have_pushers is called with invalidate_all_cb
GotRows(p) ==
    /\ frame[p].pc = "rows"
    /\ LET f    == frame[p]
           rows == _simple_select_many_batch({f.missing[u] : u \in DOMAIN f.missing})
       IN  frame' = [frame EXCEPT ![p] =
                [f EXCEPT !.pc = "pushers", !.members = MembersOfRows(rows)]]
    /\ registered' = registered \cup
            {CallbackOn(entries[frame[p].self].room_id, "pushers", "")}
    /\ UNCHANGED <<cache, entries, dicts, nAlloc, rules_table, nCalls, ghost, last>>

\* get_if_users_have_pushers returned: user_ids is computed,
\* get_users_with_read_receipts_in_room is called
GotPushers(p) ==
    /\ frame[p].pc = "pushers"
    /\ LET f == frame[p]
           if_users_with_pushers ==
               get_if_users_have_pushers(InterestedInUserIds(f.members))
       IN  frame' = [frame EXCEPT ![p] =
                [f EXCEPT !.pc = "receipts",
                          !.user_ids = UsersHavingPusher(if_users_with_pushers)]]
    /\ registered' = registered \cup
            {CallbackOn(entries[frame[p].self].room_id, "receipts", "")}
    /\ UNCHANGED <<cache, entries, dicts, nAlloc, rules_table, nCalls, ghost, last>>

\* RulesCallbacks with on_invalidate not passed to bulk_get_push_rules
RulesCallbacksNone(room, user_ids) == {}

\* the callbacks the call of bulk_get_push_rules(user_ids,
\* on_invalidate=invalidate_all_cb) registers: one on the rule set of each user
RulesCallbacks(room, user_ids) == {CallbackOn(room, "rules", u) : u \in user_ids}

\* get_users_with_read_receipts_in_room returned: the users with receipts are
\* added to user_ids, bulk_get_push_rules is called; the store may answer
\* with the rule sets it holds at the call (fetched) or with the ones it holds
\* when the call returns
GotReceipts(p) ==
    /\ frame[p].pc = "receipts"
    /\ LET f == frame[p]
           room == entries[f.self].room_id
           users_with_receipts == get_users_with_read_receipts_in_room(room)
           user_ids == AddUsersWithReceipts(f.user_ids, users_with_receipts,
                                           InterestedInUserIds(f.members))
       IN  /\ frame' = [frame EXCEPT ![p] =
                  [f EXCEPT !.pc = "rules", !.user_ids = user_ids,
                            !.fetched = bulk_get_push_rules(user_ids)]]
           /\ registered' = registered \cup RulesCallbacks(room, user_ids)
    /\ UNCHANGED <<cache, entries, dicts, nAlloc, rules_table, nCalls, ghost, last>>

\* UpdateCacheTarget writing to the entry the cache holds for the room now
UpdateCacheTargetInCache(f) ==
    IF cache[f.call.event.room_id] # 0 THEN cache[f.call.event.room_id] ELSE f.self

\* update_cache is a method of the entry get_rules was called on: it writes
\* to self
UpdateCacheTarget(f) == f.self

\* bulk_get_push_rules returned: the None values are dropped, update_cache is
\* called, _get_rules_for_member_event_ids and get_rules return
GotRules(p) ==
    /\ frame[p].pc = "rules"
    /\ LET f       == frame[p]
           e       == UpdateCacheTarget(f)
           entry   == entries[e]
           context == f.call.context
           applied == MayUpdateCache(f.sequence, entry)
       IN  \E answer \in {f.fetched, bulk_get_push_rules(f.user_ids)} :
           LET rules_by_user == DropNone(answer)
               heap    == [dicts EXCEPT ![entry.rules_by_user] =
                              UpdateCacheRules(entry, @, f.sequence, rules_by_user)]
               result  == SlowPathResult(f.ret_rules_by_user, rules_by_user)
           IN
           /\ entries' = [entries EXCEPT ![e] =
                  UpdateCacheEntry(entry, f.sequence, f.members, context.state_group)]
           /\ dicts' = heap
           /\ frame' = [frame EXCEPT ![p] = AfterGetRules(f, 0, result, heap)]
           /\ ghost' = [q \in Procs |->
                  IF q = p
                  THEN [ghost[p] EXCEPT !.returned = TRUE, !.ret = result,
                            !.resolved = rules_by_user,
                            !.commit = IF applied THEN "applied" ELSE "discarded"]
                  ELSE IF applied /\ frame[q].pc \in RefreshPcs /\ frame[q].self = e
                  THEN [ghost[q] EXCEPT !.twin_ok = FALSE]
                  ELSE ghost[q]]
           /\ last' = [context |-> context, self |-> e, ret |-> result,
                       ok |-> applied]
    /\ UNCHANGED <<cache, nAlloc, registered, rules_table, nCalls>>

\* user_has_pusher(invited) returned: with a pusher, rules_by_user becomes a
\* copy and get_push_rules_for_user is called; without, _get_rules_for_event
\* returns
GotInvitePusher(p) ==
    /\ frame[p].pc = "inv_pusher"
    /\ LET f == frame[p]
       IN  frame' = [frame EXCEPT ![p] =
                IF user_has_pusher(f.call.event.state_key)
                THEN [f EXCEPT !.pc = "inv_rules", !.rbu_ref = 0,
                               !.rbu_val = Deref(f, dicts)]
                ELSE ToFilter(f, dicts)]
    /\ UNCHANGED <<cache, entries, dicts, nAlloc, registered, rules_table, nCalls, ghost, last>>

\* get_push_rules_for_user(invited) returned: the rules are stored in the
\* copy, _get_rules_for_event returns
GotInviteRules(p) ==
    /\ frame[p].pc = "inv_rules"
    /\ LET f       == frame[p]
           invited == f.call.event.state_key
           g == [f EXCEPT !.rbu_val =
                    DictUpdate(@, invited :> get_push_rules_for_user(invited))]
       IN  frame' = [frame EXCEPT ![p] = ToFilter(g, dicts)]
    /\ UNCHANGED <<cache, entries, dicts, nAlloc, registered, rules_table, nCalls, ghost, last>>

\* filter_events_for_clients_context returned: get_joined_users_from_context
\* is called
GotFiltered(p) ==
    /\ frame[p].pc = "filter"
    /\ LET f == frame[p]
       IN  frame' = [frame EXCEPT ![p] =
                [f EXCEPT !.pc = "members",
                          !.filtered_by_user = filter_events_for_clients_context(
                               f.user_tuples, f.call.event, f.call.context)]]
    /\ UNCHANGED <<cache, entries, dicts, nAlloc, registered, rules_table, nCalls, ghost, last>>

\* get_joined_users_from_context returned: the loop over rules_by_user runs;
\* filtered_by_user[uid] raises KeyError for a uid that was not in user_tuples.
\* The call returns (or raises): of its locals only the result remains, and
\* user_tuples for the record of who was a candidate.
GotRoomMembers(p) ==
    /\ frame[p].pc = "members"
    /\ LET f             == frame[p]
           event         == f.call.event
           rules_by_user == Deref(f, dicts)
           room_members  == get_joined_users_from_context(event, f.call.context)
           st0 == [actions_by_user |-> EmptyMap, cache |-> EmptyMap,
                   evaluated |-> EmptyMap]
       IN  IF ~(Keys(rules_by_user) \subseteq DOMAIN f.filtered_by_user)
           THEN frame' = [frame EXCEPT ![p] =
                    [IdleFrame EXCEPT !.pc = "failed", !.call = f.call,
                                      !.self = f.self]]
           ELSE \E order \in Orders(Keys(rules_by_user)) :
                  LET st == UsersLoop(event, order, rules_by_user,
                                      f.filtered_by_user, room_members, st0)
                  IN  frame' = [frame EXCEPT ![p] =
                          [IdleFrame EXCEPT !.pc = "done", !.call = f.call,
                                    !.self = f.self,
                                    !.user_tuples = f.user_tuples,
                                    !.actions_by_user = st.actions_by_user,
                                    !.evaluated = st.evaluated]]
    /\ ghost' = [ghost EXCEPT ![p] = IdleGhost]
    /\ UNCHANGED <<cache, entries, dicts, nAlloc, registered, rules_table, nCalls, last>>

----------------------------------------------------------------------------
(* Failure of a lookup *)

\* the positions at which an evaluation waits for a lookup
LookupPcs == RefreshPcs \cup {"inv_pusher", "inv_rules", "filter", "members"}

\* FailedRefreshEntry writing what the refresh had resolved so far
FailedRefreshEntryCommitted(entry, sequence, members, state_group) ==
    [entry EXCEPT !.member_map = DictUpdate(@, members),
                  !.state_group = state_group]

\* _get_rules_for_member_event_ids when a yield raises: no try or finally
\* encloses the yields, update_cache is not reached and the entry stays as is
FailedRefreshEntry(entry, sequence, members, state_group) == entry

\* the lookup an evaluation waits for fails: the exception leaves
\* _get_rules_for_member_event_ids, get_rules, _get_rules_for_event and
\* action_for_event_by_user, none of which catches it
LookupFails(p) ==
    /\ frame[p].pc \in LookupPcs
    /\ LET f == frame[p]
           e == f.self
       IN  /\ frame' = [frame EXCEPT ![p] =
                  [IdleFrame EXCEPT !.pc = "failed", !.call = f.call, !.self = e]]
           /\ entries' = [entries EXCEPT ![e] =
                  IF f.pc \in RefreshPcs
                  THEN FailedRefreshEntry(@, f.sequence, f.members,
                                          f.call.context.state_group)
                  ELSE @]
    /\ ghost' = [ghost EXCEPT ![p] = [IdleGhost EXCEPT !.path = ghost[p].path]]
    /\ UNCHANGED <<cache, dicts, nAlloc, registered, rules_table, nCalls, last>>

----------------------------------------------------------------------------
(* Invalidation *)

\* rules_for_room_cache.get(room_id, update_metrics=False): the entry the
\* cache holds for the room now, 0 for none
RulesForRoomCacheGet(room) == cache[room]

\* InvalidateAllCbTarget bound to the newest entry made for the room, in the
\* cache or not
InvalidateAllCbTargetNewest(cb) ==
    LET made == {e \in DOMAIN entries : entries[e].room_id = cb.room}
    IN  IF made = {} THEN 0 ELSE CHOOSE e \in made : \A x \in made : x <= e

\* invalidate_all_cb: the entry it calls invalidate_all on is the one the
\* cache gives for the room id when the callback runs, 0 for none
InvalidateAllCbTarget(cb) == RulesForRoomCacheGet(cb.room)

\* invalidate_all_cb, called by the store for one of the cached store values
\* it was registered on: the entry is looked up in the cache by room id and
\* invalidate_all is called on it
InvalidateAllCbUpTo(cb, maxAlloc) ==
    /\ cb \in registered
    /\ nAlloc < maxAlloc
    /\ LET e == InvalidateAllCbTarget(cb)
           k == nAlloc + 1
       IN  IF e = 0
           THEN UNCHANGED <<entries, dicts, nAlloc, ghost, last>>
           ELSE /\ entries' = [entries EXCEPT ![e] = InvalidateAllEntry(@, k)]
                /\ dicts' = dicts @@ (k :> EmptyMap)
                /\ nAlloc' = k
                /\ ghost' = [q \in Procs |->
                       IF frame[q].pc \in RefreshPcs /\ frame[q].self = e
                       THEN [ghost[q] EXCEPT !.twin_ok = FALSE]
                       ELSE ghost[q]]
                /\ last' = IF last.self = e THEN [last EXCEPT !.ok = FALSE] ELSE last
    /\ UNCHANGED <<cache, registered, rules_table, frame, nCalls>>

InvalidateAllCb(cb) == InvalidateAllCbUpTo(cb, MaxAlloc)

InvalidateAllCbEvict(cb) == InvalidateAllCbUpTo(cb, MaxAllocEvict)

\* the cache of _get_rules_for_room drops the entry of a room (it holds at
\* most max_entries entries); the object lives on while an evaluation uses it
Evict(room) ==
    /\ cache[room] # 0
    /\ cache' = [cache EXCEPT ![room] = 0]
    /\ UNCHANGED <<entries, dicts, nAlloc, registered, rules_table, frame, nCalls,
                   ghost, last>>

----------------------------------------------------------------------------

Next ==
    \/ \E p \in Procs, c \in Calls : Start(p, c)
    \/ \E p \in Procs : GotRows(p)
    \/ \E p \in Procs : GotPushers(p)
    \/ \E p \in Procs : GotReceipts(p)
    \/ \E p \in Procs : GotRules(p)
    \/ \E p \in Procs : GotInvitePusher(p)
    \/ \E p \in Procs : GotInviteRules(p)
    \/ \E p \in Procs : GotFiltered(p)
    \/ \E p \in Procs : GotRoomMembers(p)
    \/ \E cb \in registered : InvalidateAllCb(cb)

Spec == Init /\ [][Next]_vars

\* the same program with one more evaluation per behaviour
NextWide ==
    \/ \E p \in Procs, c \in Calls : StartWide(p, c)
    \/ \E p \in Procs : GotRows(p)
    \/ \E p \in Procs : GotPushers(p)
    \/ \E p \in Procs : GotReceipts(p)
    \/ \E p \in Procs : GotRules(p)
    \/ \E p \in Procs : GotInvitePusher(p)
    \/ \E p \in Procs : GotInviteRules(p)
    \/ \E p \in Procs : GotFiltered(p)
    \/ \E p \in Procs : GotRoomMembers(p)
    \/ \E cb \in registered : InvalidateAllCb(cb)

SpecWide == Init /\ [][NextWide]_vars

\* the same program with lookups that may fail
NextFail ==
    \/ \E p \in Procs, c \in Calls : Start(p, c)
    \/ \E p \in Procs : GotRows(p)
    \/ \E p \in Procs : GotPushers(p)
    \/ \E p \in Procs : GotReceipts(p)
    \/ \E p \in Procs : GotRules(p)
    \/ \E p \in Procs : GotInvitePusher(p)
    \/ \E p \in Procs : GotInviteRules(p)
    \/ \E p \in Procs : GotFiltered(p)
    \/ \E p \in Procs : GotRoomMembers(p)
    \/ \E p \in Procs : LookupFails(p)
    \/ \E cb \in registered : InvalidateAllCb(cb)

SpecFail == Init /\ [][NextFail]_vars

----------------------------------------------------------------------------
(* A store whose push rules change *)

\* the users whose rules change, and the rules they change to
ChangingUsers == {"B"}

ChangedRules(u) == <<RuleMessage>>

\* the callbacks registered on the rule set of a user
CallbacksOnRulesOf(u) == {cb \in registered : cb.store = "rules" /\ cb.key = u}

\* the store runs the given callbacks one after the other: st is
\* [entries, dicts, nAlloc]
RECURSIVE RunCallbacks(_, _)
RunCallbacks(cbs, st) ==
    IF cbs = {} THEN st
    ELSE LET cb == CHOOSE x \in cbs : TRUE
             e  == InvalidateAllCbTarget(cb)
             k  == st.nAlloc + 1
             st2 == IF e = 0 THEN st
                    ELSE [entries |-> [st.entries EXCEPT ![e] = InvalidateAllEntry(@, k)],
                          dicts |-> st.dicts @@ (k :> EmptyMap),
                          nAlloc |-> k]
         IN  RunCallbacks(cbs \ {cb}, st2)

\* the rules of a user change in the store: the store drops its cached rule
\* set of the user and, before anything else runs, calls the callbacks
\* registered on it, once each
StoreRulesChange(u) ==
    /\ rules_table[u] = push_rules[u]
    /\ nAlloc + Cardinality(CallbacksOnRulesOf(u)) <= MaxAllocStore
    /\ LET st == RunCallbacks(CallbacksOnRulesOf(u),
                      [entries |-> entries, dicts |-> dicts, nAlloc |-> nAlloc])
           hit == {e \in DOMAIN entries : st.entries[e] # entries[e]}
       IN  /\ rules_table' = [rules_table EXCEPT ![u] = ChangedRules(u)]
           /\ registered' = registered \ CallbacksOnRulesOf(u)
           /\ entries' = st.entries
           /\ dicts' = st.dicts
           /\ nAlloc' = st.nAlloc
           /\ ghost' = [q \in Procs |->
                  IF frame[q].pc \in RefreshPcs /\ frame[q].self \in hit
                  THEN [ghost[q] EXCEPT !.twin_ok = FALSE]
                  ELSE ghost[q]]
           /\ last' = IF last.self \in hit THEN [last EXCEPT !.ok = FALSE] ELSE last
    /\ UNCHANGED <<cache, frame, nCalls>>

CallsStore ==
    { [event |-> Msg1, context |-> Ctx1],
      [event |-> Msg2, context |-> Ctx2] }

NextStore ==
    \/ \E p \in Procs, c \in CallsStore : StartStore(p, c)
    \/ \E p \in Procs : GotRows(p)
    \/ \E p \in Procs : GotPushers(p)
    \/ \E p \in Procs : GotReceipts(p)
    \/ \E p \in Procs : GotRules(p)
    \/ \E p \in Procs : GotFiltered(p)
    \/ \E p \in Procs : GotRoomMembers(p)
    \/ \E room \in Rooms : Evict(room)
    \/ \E u \in ChangingUsers : StoreRulesChange(u)

SpecStore == Init /\ [][NextStore]_vars

----------------------------------------------------------------------------
\* two rooms and a cache that may drop entries
CallsEvict ==
    { [event |-> Msg1, context |-> Ctx1],
      [event |-> MsgZ, context |-> Ctx5] }

NextEvict ==
    \/ \E p \in Procs, c \in CallsEvict : StartEvict(p, c)
    \/ \E p \in Procs : GotRows(p)
    \/ \E p \in Procs : GotPushers(p)
    \/ \E p \in Procs : GotReceipts(p)
    \/ \E p \in Procs : GotRules(p)
    \/ \E p \in Procs : GotFiltered(p)
    \/ \E p \in Procs : GotRoomMembers(p)
    \/ \E cb \in registered : InvalidateAllCbEvict(cb)
    \/ \E room \in Rooms : Evict(room)

SpecEvict == Init /\ [][NextEvict]_vars

----------------------------------------------------------------------------
(* The evaluation of one event on its own: the rule sets get_rules returned
   are drawn from a set, as the store may hold any rules *)

\* the rules the drawn rule sets are made of
EvalRules ==
    {RuleMention, RuleMessage, RuleInvite, RuleDisabled, RuleQuiet, RuleMixed,
     RuleMember}

\* the sequences over S of length up to n
SeqsUpTo(S, n) == UNION {[1..k -> S] : k \in 0..n}

\* the rule sets drawn for A, B and D: none (the user is not in the mapping)
\* or one of some lists
EvalRulesOfA ==
    {EmptyMap, "A" :> <<RuleMessage>>, "A" :> <<RuleMixed>>,
     "A" :> <<RuleMember, RuleMention>>}
EvalRulesOfB == {EmptyMap} \cup {"B" :> l : l \in SeqsUpTo(EvalRules, MaxRules)}
EvalRulesOfD == {EmptyMap, "D" :> <<RuleInvite, RuleQuiet, RuleMessage>>}

EvalRulesByUser ==
    {a @@ b @@ d : a \in EvalRulesOfA, b \in EvalRulesOfB, d \in EvalRulesOfD}

EvalCalls ==
    { [event |-> Msg1, context |-> Ctx1],
      [event |-> MsgB, context |-> Ctx1],
      [event |-> MsgR, context |-> Ctx1],
      [event |-> Invite, context |-> Ctx3] }

\* an evaluation whose get_rules call has returned the drawn mapping (its
\* commit was discarded after an invalidation) and that is about to call
\* filter_events_for_clients_context
InitEval ==
    \E c \in EvalCalls, m \in EvalRulesByUser :
        LET room == c.event.room_id
        IN  /\ cache = [r \in Rooms |-> IF r = room THEN 1 ELSE 0]
            /\ entries = (1 :> InvalidateAllEntry(RulesForRoomInit(room, 1), 2))
            /\ dicts = (1 :> EmptyMap) @@ (2 :> EmptyMap)
            /\ nAlloc = 2
            /\ registered = {CallbackOn(room, "pushers", ""),
                             CallbackOn(room, "receipts", "")}
                                \cup RulesCallbacks(room, Keys(m))
            /\ rules_table = DictUpdate(push_rules, m)
            /\ frame = [p \in Procs |->
                   IF p = "p1"
                   THEN ToFilter([IdleFrame EXCEPT !.call = c, !.self = 1,
                                                   !.rbu_val = m], dicts)
                   ELSE IdleFrame]
            /\ nCalls = 1
            /\ ghost = [p \in Procs |->
                   IF p = "p1"
                   THEN [IdleGhost EXCEPT !.path = "resolved", !.returned = TRUE,
                                          !.commit = "discarded", !.ret = m,
                                          !.resolved = m]
                   ELSE IdleGhost]
            /\ last = [context |-> c.context, self |-> 1, ret |-> m, ok |-> FALSE]

NextEval ==
    \/ \E p \in Procs : GotFiltered(p)
    \/ \E p \in Procs : GotRoomMembers(p)

SpecEval == InitEval /\ [][NextEval]_vars

----------------------------------------------------------------------------
(* Properties *)

\* the cached content of entry e in the given heaps
Content(ents, heap, e) ==
    [member_map |-> ents[e].member_map,
     rules_by_user |-> heap[ents[e].rules_by_user],
     state_group |-> ents[e].state_group]

\* evaluation p passes the commit step (update_cache) in this step
Commits(p) == frame[p].pc = "rules" /\ frame'[p].pc # "rules"

\* evaluation p calls get_rules in this step
CallsGetRules(p) == ghost[p].path = "none" /\ ghost'[p].path # "none"

\* the users of the member events a slow-path call found missing and the
\* room_memberships table resolves
ResolvedUsers(f) ==
    {room_memberships[ev].user_id :
        ev \in {f.missing[u] : u \in DOMAIN f.missing} \cap DOMAIN room_memberships}

\* the member entries of a context that belong to local users no application
\* service is interested in, as user_id -> event_id
LocalMemberEntries(context) ==
    LET csi == context.current_state_ids
    IN  [u \in {u \in Users : /\ MemberKey(u) \in DOMAIN csi
                              /\ is_mine_id(u)
                              /\ ~get_if_app_services_interested_in_user(u)}
            |-> csi[MemberKey(u)]]

\* C1: stale discard. The cached content of an entry (member_map,
\* rules_by_user, state_group) changes without an invalidation only in the
\* commit step of a refresh whose captured sequence equals the entry's
\* sequence, and a commit step whose captured sequence differs from the
\* entry's sequence writes nothing.
C1_StaleDiscard ==
    [][ /\ \A e \in DOMAIN entries :
             ( /\ entries'[e].sequence = entries[e].sequence
               /\ Content(entries', dicts', e) # Content(entries, dicts, e) )
             => \E p \in Procs : /\ Commits(p)
                                 /\ frame[p].self = e
                                 /\ frame[p].sequence = entries[e].sequence
        /\ \A p \in Procs :
             ( /\ Commits(p)
               /\ frame[p].sequence # entries[frame[p].self].sequence )
             => entries' = entries /\ dicts' = dicts ]_vars

\* C1 witness: a refresh that resolved rule sets was discarded after an
\* invalidation, and the entry is still in its invalidated state
C1_Witness ==
    \E p \in Procs :
        /\ ghost[p].commit = "discarded"
        /\ ghost[p].resolved # EmptyMap
        /\ entries[frame[p].self].sequence > frame[p].sequence
        /\ dicts[entries[frame[p].self].rules_by_user] = EmptyMap
        /\ entries[frame[p].self].state_group \notin StateGroups

\* the rule sets a slow-path call resolves anew, from the tables of the store
NewlyResolved(f) ==
    LET room  == f.call.event.room_id
        users == {u \in ResolvedUsers(f) :
                    /\ u \in UsersWithPushers
                         \/ u \in get_users_with_read_receipts_in_room(room)
                    /\ u \notin NoRulesUsers}
    IN  [u \in users |-> push_rules[u]]

\* C2: a slow-path refresh that resolved missing members returns the rule sets
\* reused at the partition together with the newly resolved, non-absent rule
\* sets, whether its commit was applied or discarded.
C2_SlowPathReturnsUnion ==
    \A p \in Procs :
        (ghost[p].returned /\ ghost[p].path = "resolved")
        => LET reused == frame[p].ret_rules_by_user
               new    == NewlyResolved(frame[p])
           IN  /\ ghost[p].commit \in {"applied", "discarded"}
               /\ ghost[p].ret =
                    [u \in (DOMAIN reused) \cup (DOMAIN new) |->
                        IF u \in DOMAIN new THEN new[u] ELSE reused[u]]

\* C2 witness: a discarded refresh has returned reused and newly resolved
\* rule sets
C2_Witness ==
    \E p \in Procs :
        /\ ghost[p].returned
        /\ ghost[p].commit = "discarded"
        /\ frame[p].ret_rules_by_user # EmptyMap
        /\ ghost[p].resolved # EmptyMap
        /\ Keys(ghost[p].ret) =
             Keys(frame[p].ret_rules_by_user) \cup Keys(ghost[p].resolved)

\* C3: idempotence of results. A refresh that follows a refresh with the same
\* context on the same entry, with no invalidation and no other commit in
\* between, returns the mapping the first one returned.
C3_Idempotent ==
    \A p \in Procs :
        (ghost[p].returned /\ ghost[p].twin_ok) => ghost[p].ret = ghost[p].twin_ret

\* C4: a refresh that follows a completed refresh with the same context on
\* the same entry, with no invalidation since that one started, never
\* reaches an external lookup of get_rules.
C4_NoLookupSecondTime ==
    \A p \in Procs :
        ghost[p].follows
        => /\ frame[p].pc \notin RefreshPcs
           /\ ghost[p].path \in {"fast", "reused"}
           /\ ghost[p].commit = "none"

\* C4 witness: a refresh followed a committed refresh with the same context
\* and answered from the fast path
C4_Witness ==
    \E p \in Procs :
        /\ ghost[p].follows
        /\ ghost[p].path = "fast"
        /\ ghost[p].ret # EmptyMap

\* C5: after a slow-path refresh that found nothing missing, with nothing
\* done to the entry since, the entry's state_group is the context's.
C5_CommitWithoutMissing ==
    \A p \in Procs :
        ( /\ ghost[p].path = "reused"
          /\ last.ok
          /\ last.self = frame[p].self
          /\ last.context = frame[p].call.context )
        => entries[frame[p].self].state_group = frame[p].call.context.state_group

\* entry e is as invalidate_all leaves it
Invalidated(e) ==
    /\ entries[e].sequence > 0
    /\ entries[e].member_map = EmptyMap
    /\ dicts[entries[e].rules_by_user] = EmptyMap
    /\ entries[e].state_group \notin StateGroups

\* C6: an invalidation adds one to sequence, empties member_map and
\* rules_by_user and sets state_group to a value that is no state group and
\* no state_group any entry had; a refresh called on an entry in that state
\* takes the slow path and treats every member entry of a local user no
\* application service is interested in as missing.
C6_InvalidateResets ==
    [][ /\ \A e \in DOMAIN entries :
             entries'[e].sequence # entries[e].sequence
             => /\ entries'[e].sequence = entries[e].sequence + 1
                /\ entries'[e].member_map = EmptyMap
                /\ dicts'[entries'[e].rules_by_user] = EmptyMap
                /\ entries'[e].state_group \notin StateGroups
                /\ \A e2 \in DOMAIN entries :
                      entries'[e].state_group # entries[e2].state_group
        /\ \A p \in Procs :
             ( /\ CallsGetRules(p)
               /\ frame'[p].self \in DOMAIN entries
               /\ Invalidated(frame'[p].self) )
             => /\ ghost'[p].path = "resolved"
                /\ frame'[p].pc = "rows"
                /\ frame'[p].missing = LocalMemberEntries(frame'[p].call.context)
      ]_vars

\* C6 witness: a refresh called after an invalidation is resolving every
\* local member entry of its context
C6_Witness ==
    \E p \in Procs :
        /\ frame[p].pc = "rows"
        /\ frame[p].sequence > 0
        /\ frame[p].sequence = entries[frame[p].self].sequence
        /\ entries[frame[p].self].member_map = EmptyMap
        /\ frame[p].missing = LocalMemberEntries(frame[p].call.context)

\* the users with a read receipt in the room of an evaluation and no pusher
ReceiptOnly(f) ==
    get_users_with_read_receipts_in_room(f.call.event.room_id) \ UsersWithPushers

\* C7: the users whose rule sets are fetched are pusher-owning; a
\* resolved member with a read receipt and no pusher is never in the fetch
\* set, in the result of a refresh or in rules_by_user.
C7_ReceiptNeedsPusher ==
    \A p \in Procs :
        /\ frame[p].pc = "rules" => frame[p].user_ids \subseteq UsersWithPushers
        /\ ghost[p].returned => Keys(ghost[p].ret) \cap ReceiptOnly(frame[p]) = {}
        /\ frame[p].self # 0
           => Keys(dicts[entries[frame[p].self].rules_by_user])
                 \cap ReceiptOnly(frame[p]) = {}

\* C8: after the evaluation of an invite event for a local user with a
\* pusher, rules_by_user of the room's entry does not hold the invited user.
C8_InviteNotCached ==
    \A p \in Procs :
        ( /\ frame[p].pc = "done"
          /\ IsLocalInvite(frame[p].call.event)
          /\ user_has_pusher(frame[p].call.event.state_key) )
        => frame[p].call.event.state_key
              \notin Keys(dicts[entries[frame[p].self].rules_by_user])

\* C9: the mapping a refresh returned from the fast path stays as it was
\* returned, and the keys evaluate iterates over after the visibility filter
\* are the users it passed to the filter.
C9_FastPathSnapshot ==
    \A p \in Procs :
        /\ (ghost[p].path = "fast" /\ frame[p].rbu_ref # 0)
           => dicts[frame[p].rbu_ref] = ghost[p].ret
        /\ frame[p].pc \in {"filter", "members"}
           => Keys(Deref(frame[p], dicts)) = frame[p].user_tuples

\* C10: monotonic merge. While the sequence of an entry stays the same, no
\* step removes a key from its member_map or its rules_by_user.
C10_MonotonicMerge ==
    [][ \A e \in DOMAIN entries :
           entries'[e].sequence = entries[e].sequence
           => /\ Keys(entries[e].member_map) \subseteq Keys(entries'[e].member_map)
              /\ Keys(dicts[entries[e].rules_by_user])
                    \subseteq Keys(dicts'[entries'[e].rules_by_user]) ]_vars

\* C10 witness: two refreshes for different contexts have committed into the
\* same generation of an entry
C10_Witness ==
    \E e \in DOMAIN entries :
        /\ entries[e].sequence = 0
        /\ {"eB", "eBl"} \subseteq Keys(entries[e].member_map)
        /\ {"A", "B", "C"} \subseteq Keys(dicts[entries[e].rules_by_user])

\* C11: self-exclusion. The map action_for_event_by_user returns never has
\* the sender of the event as a key, whatever rules the sender has.
C11_SenderExcluded ==
    \A p \in Procs :
        frame[p].pc = "done"
        => frame[p].call.event.sender \notin Keys(frame[p].actions_by_user)

\* C11 witness: B sent a message that mentions B's display name; B was a
\* candidate with a first rule that matches and notifies, another user got
\* actions and B got none
C11_Witness ==
    \E p \in Procs :
        /\ frame[p].pc = "done"
        /\ frame[p].call.event = MsgB
        /\ "B" \in frame[p].user_tuples
        /\ rules_table["B"] # <<>>
        /\ rules_table["B"][1] = RuleMention
        /\ "A" \in Keys(frame[p].actions_by_user)
        /\ "B" \notin Keys(frame[p].actions_by_user)

\* the users of the loop that pass the two skips: an event is visible to
\* them and they are not its sender
Survivors(f, rules_by_user) ==
    {u \in Keys(rules_by_user) :
        /\ Len(f.filtered_by_user[u]) > 0
        /\ f.filtered_by_user[u][1].sender # u}

\* every condition of a rule matches for the user, as the evaluator answers
RuleMatches(f, rule, u) ==
    LET event == f.call.event
        dn == DisplayNameOf(event,
                  get_joined_users_from_context(event, f.call.context), u)
    IN  \A i \in 1..Len(rule.conditions) :
            EvaluatorMatches(event, rule.conditions[i], u, dn)

\* the indices of the rules of a user that are not disabled and match
MatchingRules(f, rules, u) ==
    {j \in 1..Len(rules) : rules[j].enabled # "false" /\ RuleMatches(f, rules[j], u)}

\* the first of them
FirstMatch(f, rules, u) ==
    CHOOSE j \in MatchingRules(f, rules, u) :
        \A k \in MatchingRules(f, rules, u) : j <= k

\* the action list of a rule without its dont_notify entries
Normalized(actions) == SelectSeq(actions, LAMBDA x : x # "dont_notify")

\* the action map the first matching rules decide
FirstMatchActions(f, rules_by_user) ==
    LET notified ==
            {u \in Survivors(f, rules_by_user) :
                /\ MatchingRules(f, rules_by_user[u], u) # {}
                /\ LET a == Normalized(
                        rules_by_user[u][FirstMatch(f, rules_by_user[u], u)].actions)
                   IN  a # <<>> /\ \E i \in 1..Len(a) : a[i] = "notify"}
    IN  [u \in notified |->
            Normalized(rules_by_user[u][FirstMatch(f, rules_by_user[u], u)].actions)]

\* evaluation p runs the loop over rules_by_user and returns in this step
Evaluates(p) == frame[p].pc = "members" /\ frame'[p].pc = "done"

\* C12: first match wins. For each user that passes the skips, the outcome is
\* decided by the first rule that is not disabled and whose conditions all
\* match: the user's entry is that rule's action list without its dont_notify
\* entries if that is non-empty and has notify in it, and the user has no entry
\* otherwise; rules that are disabled, do not match or come later change
\* nothing.
C12_FirstMatchWins ==
    [][ \A p \in Procs :
           Evaluates(p)
           => frame'[p].actions_by_user =
                 FirstMatchActions(frame[p], Deref(frame[p], dicts)) ]_vars

\* C12 witness: B's rules were a rule that does not match, then a matching
\* rule whose actions are dont_notify and notify, then a matching rule that
\* would notify and highlight; B's entry is notify alone
C12_Witness ==
    \E p \in Procs :
        /\ frame[p].pc = "done"
        /\ frame[p].call.event = Msg1
        /\ "B" \in frame[p].user_tuples
        /\ rules_table["B"] = <<RuleInvite, RuleMixed, RuleMention>>
        /\ frame[p].actions_by_user = ("B" :> <<"notify">>)

\* the positions of the conditions in the rules of a mapping: user, index
\* of the rule, index of the condition
Positions(rules_by_user) ==
    UNION {UNION {{<<u, j, c>> : c \in 1..Len(rules_by_user[u][j].conditions)} :
                     j \in 1..Len(rules_by_user[u])} :
           u \in Keys(rules_by_user)}

\* the condition at a position
ConditionAt(rules_by_user, x) == rules_by_user[x[1]][x[2]].conditions[x[3]]

\* the conditions of the rules of a mapping
ConditionsOf(rules_by_user) ==
    {ConditionAt(rules_by_user, x) : x \in Positions(rules_by_user)}

\* condition c of rule j of user u is reached: the user passes the skips, the
\* rule is not disabled, no earlier rule that is not disabled matches, and
\* the earlier conditions of the rule match
Reached(f, rules_by_user, u, j, c) ==
    LET rules == rules_by_user[u]
        event == f.call.event
        dn == DisplayNameOf(event,
                  get_joined_users_from_context(event, f.call.context), u)
    IN  /\ u \in Survivors(f, rules_by_user)
        /\ rules[j].enabled # "false"
        /\ \A k \in 1..(j - 1) : k \notin MatchingRules(f, rules, u)
        /\ \A k \in 1..(c - 1) :
              EvaluatorMatches(event, rules[j].conditions[k], u, dn)

\* how often a condition is reached in the evaluation of a mapping
Reaches(f, rules_by_user, cond) ==
    Cardinality(
        {x \in Positions(rules_by_user) :
            /\ ConditionAt(rules_by_user, x) = cond
            /\ Reached(f, rules_by_user, x[1], x[2], x[3])})

\* the number of calls of evaluator.matches counted for a condition
CallsOf(evaluated, cond) == IF cond \in DOMAIN evaluated THEN evaluated[cond] ELSE 0

\* C18: condition memoization. In one call of action_for_event_by_user a
\* condition with an _id is passed to the evaluator once if it is reached at
\* all (so the memo was empty when the call started) and never again, over all
\* rules and users; a condition without an _id is passed to the evaluator
\* every time it is reached; the memo holds the conditions with an _id that
\* were evaluated and nothing else.
C18_ConditionMemo ==
    [][ \A p \in Procs :
           Evaluates(p)
           => LET f == frame[p]
                  rules_by_user == Deref(f, dicts)
                  evaluated == frame'[p].evaluated
              IN  /\ DOMAIN evaluated \subseteq ConditionsOf(rules_by_user)
                  /\ \A cond \in ConditionsOf(rules_by_user) :
                        LET reaches == Reaches(f, rules_by_user, cond)
                        IN  CallsOf(evaluated, cond) =
                              IF cond._id = "" THEN reaches
                              ELSE IF reaches > 0 THEN 1 ELSE 0
                  /\ \A order \in Orders(Keys(rules_by_user)) :
                        LET st == UsersLoop(f.call.event, order, rules_by_user,
                                      f.filtered_by_user,
                                      get_joined_users_from_context(
                                          f.call.event, f.call.context),
                                      [actions_by_user |-> EmptyMap,
                                       cache |-> EmptyMap, evaluated |-> EmptyMap])
                        IN  DOMAIN st.cache =
                              {cond._id : cond \in
                                  {x \in DOMAIN st.evaluated : x._id # ""}} ]_vars

\* C18 witness: in one call the condition with _id c_msg was reached by the
\* rules of two users and evaluated once, and the condition without an _id
\* that follows it in both rules was evaluated twice
C18_Witness ==
    \E p \in Procs :
        /\ frame[p].pc = "done"
        /\ frame[p].call.event = MsgR
        /\ {"A", "B"} \subseteq frame[p].user_tuples
        /\ rules_table["A"] = <<RuleMixed>>
        /\ rules_table["B"] = <<RuleMixed>>
        /\ CallsOf(frame[p].evaluated, CondMessage) = 1
        /\ CallsOf(frame[p].evaluated, CondMention) = 2

\* C13: failure leaves the cache untouched. Between its start and the
\* failure of one of its lookups a refresh writes nothing to any entry; the
\* failing step changes no entry, the evaluation ends with the failure, its
\* get_rules call never returns and no action map is produced.
C13_FailureLeavesCache ==
    [][ \A p \in Procs :
           ( /\ frame[p].pc \in RefreshPcs
             /\ frame'[p] # frame[p]
             /\ frame'[p].pc \in RefreshPcs \cup {"failed"} )
           => /\ entries' = entries
              /\ dicts' = dicts
              /\ frame'[p].pc = "failed"
                 => /\ ~ghost'[p].returned
                    /\ frame'[p].actions_by_user = EmptyMap
                    /\ last' = last ]_vars

\* C13 witness: a refresh that had resolved members failed at a lookup, and
\* the entry, which another refresh had filled, still has the state group and
\* the members of that one only
C13_Witness ==
    \E p \in Procs, q \in Procs :
        /\ frame[p].pc = "failed"
        /\ ghost[p].path = "resolved"
        /\ frame[q].pc = "done"
        /\ frame[q].self = frame[p].self
        /\ frame[q].call.context # frame[p].call.context
        /\ entries[frame[p].self].state_group = frame[q].call.context.state_group
        /\ frame[p].call.context.current_state_ids[MemberKey("B")]
              \notin Keys(entries[frame[p].self].member_map)

\* entry e and its rules_by_user dict are the same before and after the step
Untouched(e) ==
    /\ entries'[e] = entries[e]
    /\ dicts'[entries'[e].rules_by_user] = dicts[entries[e].rules_by_user]

\* C14: the callback resolves through the cache. A run of invalidate_all_cb
\* for a room the cache holds no entry for changes no entry, the dropped one
\* included; a run for a room with an entry in the cache invalidates that
\* entry and leaves every other entry as it is. So an entry is invalidated
\* only while it is the entry the cache holds for its room.
C14_CallbackThroughCache ==
    [][ /\ \A cb \in registered :
             InvalidateAllCbEvict(cb)
             => IF cache[cb.room] = 0
                THEN entries' = entries /\ dicts' = dicts
                ELSE /\ entries'[cache[cb.room]].sequence =
                           entries[cache[cb.room]].sequence + 1
                     /\ \A e \in DOMAIN entries \ {cache[cb.room]} : Untouched(e)
        /\ \A e \in DOMAIN entries :
             entries'[e].sequence # entries[e].sequence
             => /\ cache[entries[e].room_id] = e
                /\ \A e2 \in DOMAIN entries \ {e} : Untouched(e2) ]_vars

\* C14 witness: the entry of room !r1 was dropped from the cache with its
\* callbacks registered and is not invalidated, while the entry of room !r2
\* was invalidated in the cache
C14_Witness ==
    \E e1 \in DOMAIN entries, e2 \in DOMAIN entries :
        /\ entries[e1].room_id = "!r1"
        /\ cache["!r1"] = 0
        /\ CallbackOn("!r1", "rules", "A") \in registered
        /\ entries[e1].sequence = 0
        /\ entries[e1].member_map # EmptyMap
        /\ entries[e2].room_id = "!r2"
        /\ cache["!r2"] = e2
        /\ entries[e2].sequence = 1

\* entry e is as RulesForRoom.__init__ leaves it
Cold(ents, heap, e) ==
    /\ ents[e].sequence = 0
    /\ ents[e].member_map = EmptyMap
    /\ heap[ents[e].rules_by_user] = EmptyMap
    /\ ents[e].state_group \notin StateGroups

\* C15: eviction isolation. The entry the cache makes for a room it held no
\* entry for is a new object in its initial state; a refresh whose entry was
\* dropped from the cache meanwhile still returns the reused and the resolved
\* rule sets at its commit step, and a commit step writes to the entry the
\* refresh was called on and to no other entry.
C15_EvictionIsolation ==
    [][ /\ \A r \in Rooms :
             (cache[r] = 0 /\ cache'[r] # 0)
             => /\ cache'[r] \notin DOMAIN entries
                /\ Cold(entries', dicts', cache'[r])
        /\ \A p \in Procs :
             Commits(p)
             => /\ \A e \in DOMAIN entries \ {frame[p].self} : Untouched(e)
                /\ ghost'[p].returned
                /\ ghost'[p].ret =
                      DictUpdate(frame[p].ret_rules_by_user, ghost'[p].resolved)
                /\ frame'[p].pc = "filter" ]_vars

\* C15 witness: a refresh has committed into an entry the cache had dropped,
\* and the entry the cache made for the room afterwards is still in its
\* initial state
C15_Witness ==
    \E p \in Procs :
        /\ ghost[p].returned
        /\ ghost[p].commit = "applied"
        /\ ghost[p].ret # EmptyMap
        /\ cache["!r1"] \notin {0, frame[p].self}
        /\ entries[frame[p].self].room_id = "!r1"
        /\ entries[frame[p].self].state_group = frame[p].call.context.state_group
        /\ Cold(entries, dicts, cache["!r1"])

\* C16: every user passed to filter_events_for_clients_context is joined in
\* the context of the event or is the user the event invites.
C16_CandidatesJoined ==
    \A p \in Procs :
        frame[p].pc = "filter"
        => \A u \in frame[p].user_tuples :
              \/ MembershipIn(frame[p].call.context, u) = MembershipJOIN
              \/ /\ frame[p].call.event.type = EventTypesMember
                 /\ frame[p].call.event.membership = "invite"
                 /\ frame[p].call.event.state_key = u

\* C17: warm after the last invalidation. When a refresh has returned, its
\* commit was not discarded, and since its return no other refresh returned
\* and no invalidation happened, the entry's state_group is the state group of
\* its context, so that the next refresh with that context takes the fast
\* path.
C17_WarmAfterRefresh ==
    \A p \in Procs :
        ( /\ ghost[p].returned
          /\ ghost[p].commit # "discarded"
          /\ last.ok
          /\ last.self = frame[p].self
          /\ last.context = frame[p].call.context )
        => FastPath(entries[frame[p].self], frame[p].call.context)

\* what get_rules returns for a context on an entry in its initial state,
\* from the tables of the store: the rule sets of the users the member events
\* of local users resolve to who have a pusher or a read receipt in the room
ColdRefresh(context, room) ==
    LET local == LocalMemberEntries(context)
        users == {room_memberships[ev].user_id :
                    ev \in {local[u] : u \in DOMAIN local} \cap DOMAIN room_memberships}
        fetch == {u \in users : \/ u \in UsersWithPushers
                                \/ u \in get_users_with_read_receipts_in_room(room)}
    IN  [u \in fetch \ NoRulesUsers |-> push_rules[u]]

\* C19: warm/cold equivalence. With the store unchanged, whatever the entry
\* has merged before, get_rules returns for a context the mapping it returns
\* for that context on an entry in its initial state.
C19_WarmEqualsCold ==
    \A p \in Procs :
        ghost[p].returned
        => ghost[p].ret =
              ColdRefresh(frame[p].call.context, frame[p].call.event.room_id)

\* every rule set in rules_by_user of an entry the cache holds is the rule
\* set the store has for the user
StoreCoherent(c, ents, heap, table) ==
    \A r \in Rooms :
        c[r] # 0
        => \A u \in Keys(heap[ents[c[r]].rules_by_user]) :
              heap[ents[c[r]].rules_by_user][u] = table[u]

\* C20 as stated: after every step every rule set held by an entry in the
\* cache is the store's rule set of the user now, and no commit step that
\* writes to an entry writes a rule set the store has changed since the
\* refresh read it.
C20_NoStaleCommit ==
    [][ /\ StoreCoherent(cache', entries', dicts', rules_table')
        /\ \A p \in Procs :
             ( /\ Commits(p)
               /\ ghost'[p].commit = "applied" )
             => \A u \in Keys(ghost'[p].resolved) :
                   ghost'[p].resolved[u] = rules_table[u] ]_vars

\* C20 amended: after every step every rule set held by an entry in the
\* cache is the store's rule set of the user now, and no commit step that
\* writes to an entry the cache holds writes a rule set the store has changed
\* since the refresh read it; a refresh whose entry the cache has dropped may
\* write such a rule set to that dropped entry.
C20_CoherentInCache ==
    [][ /\ StoreCoherent(cache', entries', dicts', rules_table')
        /\ \A p \in Procs :
             ( /\ Commits(p)
               /\ ghost'[p].commit = "applied"
               /\ cache[frame[p].call.event.room_id] = frame[p].self )
             => \A u \in Keys(ghost'[p].resolved) :
                   ghost'[p].resolved[u] = rules_table[u] ]_vars

\* C20 witness: the rules of B changed after a refresh had read them; the
\* callback invalidated the entry, the refresh was discarded, and the cache
\* holds the entry without the old rule set
C20_Witness ==
    \E p \in Procs :
        /\ ghost[p].commit = "discarded"
        /\ "B" \in Keys(ghost[p].resolved)
        /\ ghost[p].resolved["B"] # rules_table["B"]
        /\ cache["!r1"] = frame[p].self
        /\ "B" \notin Keys(dicts[entries[frame[p].self].rules_by_user])

====
